---- MODULE Spec2Model ----
(***************************************************************************)
(* Model of task_cli (src/src/task_cli/cli.py): the TaskManager registry   *)
(* (last_id, tasks), its backing JSON file, and the operations add,        *)
(* update, delete, set_status, list_tasks and _load / save.                *)
(*                                                                         *)
(* TaskStatus is a str enumeration: a member is a str, equal to its value, *)
(* and a task holds its status as that str.  A status passed by a caller   *)
(* is [enum, value], enum telling whether it is a member of TaskStatus or  *)
(* a plain str.  A datetime is a number of clock steps; FracPerSec steps   *)
(* make one second.                                                        *)
(* A JSON object is a record with a field `keys` naming the keys that are  *)
(* present; a key that is absent holds a fixed filler value.               *)
(***************************************************************************)
EXTENDS Integers, Sequences, FiniteSets, TLC

\* ---------------------------------------------------------------- bounds
MaxId == 2          \* add is enabled while last_id < MaxId
MaxAdds == 3        \* add is enabled while fewer than MaxAdds ids were returned
MaxClock == 1      \* the clock takes the values 0..MaxClock
FracPerSec == 2     \* sub-second clock steps in one second
MaxDrift == 1       \* clock steps that may pass between the two now() of Task()
MaxEdits == 1       \* times the file is damaged: edits from outside, interrupted writes

\* ------------------------------------------------------------ value sets
StatusValues == {"todo", "in-progress", "done"}
TaskStatus == {[enum |-> TRUE, value |-> v] : v \in StatusValues}
TODO == [enum |-> TRUE, value |-> "todo"]
\* what a caller may pass as `status`: a member, or a plain str
StatusInputs ==
  TaskStatus \cup {[enum |-> FALSE, value |-> v] : v \in {"bogus"}}
\* "cafe_e_acute" stands for a text with a character outside ASCII
Descriptions == {"milk", "cafe_e_acute"}
NonAscii(d) == d = "cafe_e_acute"
Ids == 1..MaxId

TopKeys == {"last_id", "tasks"}
TaskKeys == {"id", "description", "status", "created_at", "updated_at"}

VARIABLES
  file,      \* content of json_path
  running,   \* a process holds a constructed TaskManager
  last_id,   \* TaskManager.last_id
  tasks,     \* TaskManager.tasks
  now,       \* the wall clock read by datetime.now()
  lastOp,    \* the operation executed last, with its arguments and outcome
  returned,  \* history: the ids returned by add, in order
  edits      \* history: the number of times the file was damaged

vars == <<file, running, last_id, tasks, now, lastOp, returned, edits>>

\* --------------------------------------------------------------- helpers
Op(name, id, description, status, out, ret, wrote) ==
  [name |-> name, id |-> id, description |-> description, status |-> status,
   out |-> out, ret |-> ret, wrote |-> wrote]

NoStatus == [enum |-> FALSE, value |-> ""]

\* the result of a TaskManager method: the manager, the file, what was
\* raised ("ok" when nothing was), the value returned, whether the file
\* was written
Result(m, f, out, ret, wrote) ==
  [m |-> m, f |-> f, out |-> out, ret |-> ret, wrote |-> wrote]

RemoveAt(s, i) == [j \in 1..(Len(s) - 1) |-> IF j < i THEN s[j] ELSE s[j + 1]]

\* Python ==: a member of the str enumeration equals the str of its value;
\* dataclass equality compares field by field
PyEqStatus(a, b) == a = b
PyEqTask(a, b) ==
  /\ a.id = b.id
  /\ a.description = b.description
  /\ PyEqStatus(a.status, b.status)
  /\ a.created_at = b.created_at
  /\ a.updated_at = b.updated_at
PyEqTasks(s, t) ==
  /\ Len(s) = Len(t)
  /\ \A i \in 1..Len(s) : PyEqTask(s[i], t[i])

\* ------------------------------------------------------------- datetime
\* isoformat(timespec="seconds"): the fraction is never written
isoformat_seconds(t) == <<t \div FracPerSec>>

\* datetime.isoformat(): the fraction is written only when it is not zero
isoformat(t) ==
  IF t % FracPerSec = 0 THEN <<t \div FracPerSec>>
  ELSE <<t \div FracPerSec, t % FracPerSec>>

\* datetime.fromisoformat()
fromisoformat(s) ==
  IF Len(s) = 1 THEN s[1] * FracPerSec ELSE s[1] * FracPerSec + s[2]

\* ----------------------------------------------------------------- Task
Task(id, description, status, created_at, updated_at) ==
  [id |-> id, description |-> description, status |-> status,
   created_at |-> created_at, updated_at |-> updated_at]

\* Task.to_dict followed by the JSON encoding of the entry
to_dict(task) ==
  [keys |-> TaskKeys, id |-> task.id, description |-> task.description,
   status |-> task.status,
   created_at |-> isoformat(task.created_at),
   updated_at |-> isoformat(task.updated_at)]

\* ----------------------------------------------------------------- file
Data(lid, entries) == [keys |-> TopKeys, last_id |-> lid, tasks |-> entries]
EmptyData == Data(0, <<>>)

Absent == [kind |-> "absent", data |-> EmptyData]
BadSyntax == [kind |-> "badsyntax", data |-> EmptyData]
Undecodable == [kind |-> "undecodable", data |-> EmptyData]

\* TaskManager._write_data: open(json_path, "w") and json.dump
write_data(data) == [kind |-> "doc", data |-> data]

\* TaskManager._open_data: open(json_path, "r") and json.load.  Reading
\* bytes that are no text raises UnicodeDecodeError, text that is no JSON
\* raises JSONDecodeError
open_data(f) ==
  IF f.kind = "undecodable" THEN [exc |-> "UnicodeDecodeError", data |-> EmptyData]
  ELSE IF f.kind = "badsyntax" THEN [exc |-> "JSONDecodeError", data |-> EmptyData]
  ELSE [exc |-> "none", data |-> f.data]

\* dict.get(key, default) on the top-level object
get_last_id(data) == IF "last_id" \in data.keys THEN data.last_id ELSE 0
get_tasks(data) == IF "tasks" \in data.keys THEN data.tasks ELSE <<>>

\* task["id"], task["description"], ... raise KeyError on an absent key
RaisesKeyError(entries) ==
  \E i \in 1..Len(entries) : entries[i].keys # TaskKeys

\* the Task built from an entry of the file: the status is the str read,
\* whatever it is
TaskOfEntry(e) ==
  Task(e.id, e.description, e.status,
       fromisoformat(e.created_at), fromisoformat(e.updated_at))

EmptyManager == [last_id |-> 0, tasks |-> <<>>]

\* _load that leaves a missing file missing
load_nocreate(f) ==
  IF f.kind = "absent"
  THEN Result(EmptyManager, f, "created", <<>>, FALSE)
  ELSE LET o == open_data(f) IN
    IF o.exc = "UnicodeDecodeError"
    THEN Result(EmptyManager, f, "UnicodeDecodeError", <<>>, FALSE)
    ELSE IF o.exc = "JSONDecodeError" \/ RaisesKeyError(get_tasks(o.data))
    THEN Result(EmptyManager, write_data(Data(0, <<>>)), "reset", <<>>, TRUE)
    ELSE LET es == get_tasks(o.data) IN
      Result([last_id |-> get_last_id(o.data),
              tasks |-> [i \in 1..Len(es) |-> TaskOfEntry(es[i])]],
             f, "loaded", <<>>, FALSE)

\* TaskManager.__init__ and TaskManager._load
load(f) ==
  IF f.kind = "absent"
  THEN Result(EmptyManager, write_data(Data(0, <<>>)), "created", <<>>, TRUE)
  ELSE LET o == open_data(f) IN
    IF o.exc = "UnicodeDecodeError"
    THEN Result(EmptyManager, f, "UnicodeDecodeError", <<>>, FALSE)
    ELSE IF o.exc = "JSONDecodeError" \/ RaisesKeyError(get_tasks(o.data))
    THEN Result(EmptyManager, write_data(Data(0, <<>>)), "reset", <<>>, TRUE)
    ELSE LET es == get_tasks(o.data) IN
      Result([last_id |-> get_last_id(o.data),
              tasks |-> [i \in 1..Len(es) |-> TaskOfEntry(es[i])]],
             f, "loaded", <<>>, FALSE)

\* TaskManager.save
save(m) ==
  write_data(Data(m.last_id, [i \in 1..Len(m.tasks) |-> to_dict(m.tasks[i])]))

\* add that numbers the new task after the tasks that are left
add_reuse(m, f, description, t1, t2) ==
  LET id == Len(m.tasks) + 1
      task == Task(id, description, TODO.value, t1, t2)
      m2 == [last_id |-> id, tasks |-> Append(m.tasks, task)]
  IN Result(m2, save(m2), "ok", <<task>>, TRUE)

\* add that puts the new task in front of the others
add_front(m, f, description, t1, t2) ==
  LET id == m.last_id + 1
      task == Task(id, description, TODO.value, t1, t2)
      m2 == [last_id |-> id, tasks |-> <<task>> \o m.tasks]
  IN Result(m2, save(m2), "ok", <<task>>, TRUE)

\* TaskManager.add; t1 and t2 are the two datetime.now() of Task()
add(m, f, description, t1, t2) ==
  LET id == m.last_id + 1
      task == Task(id, description, TODO.value, t1, t2)
      m2 == [last_id |-> id, tasks |-> Append(m.tasks, task)]
  IN Result(m2, save(m2), "ok", <<task>>, TRUE)

\* _get_task without the test for an empty list
get_task_noempty(m, id) ==
  IF \E i \in 1..Len(m.tasks) : m.tasks[i].id = id
  THEN [exc |-> "none",
        idx |-> CHOOSE i \in 1..Len(m.tasks) :
                  /\ m.tasks[i].id = id
                  /\ \A j \in 1..(i - 1) : m.tasks[j].id # id]
  ELSE [exc |-> "NotFound", idx |-> 0]

\* TaskManager._get_task: the index of the first task with this id
get_task(m, id) ==
  IF m.tasks = <<>> THEN [exc |-> "EmptyCollection", idx |-> 0]
  ELSE IF \E i \in 1..Len(m.tasks) : m.tasks[i].id = id
  THEN [exc |-> "none",
        idx |-> CHOOSE i \in 1..Len(m.tasks) :
                  /\ m.tasks[i].id = id
                  /\ \A j \in 1..(i - 1) : m.tasks[j].id # id]
  ELSE [exc |-> "NotFound", idx |-> 0]

\* update that builds a new Task in place of the old one
update_recreate(m, f, id, description, t) ==
  LET g == get_task(m, id) IN
  IF g.exc # "none" THEN Result(m, f, g.exc, <<>>, FALSE)
  ELSE LET task == Task(id, description, m.tasks[g.idx].status, t, t)
           m2 == [m EXCEPT !.tasks[g.idx] = task]
       IN Result(m2, save(m2), "ok", <<task>>, TRUE)

\* update that returns without saving
update_nosave(m, f, id, description, t) ==
  LET g == get_task(m, id) IN
  IF g.exc # "none" THEN Result(m, f, g.exc, <<>>, FALSE)
  ELSE LET task == [m.tasks[g.idx] EXCEPT !.description = description,
                                          !.updated_at = t]
           m2 == [m EXCEPT !.tasks[g.idx] = task]
       IN Result(m2, f, "ok", <<task>>, FALSE)

\* TaskManager.update; t is datetime.now()
update(m, f, id, description, t) ==
  LET g == get_task(m, id) IN
  IF g.exc # "none" THEN Result(m, f, g.exc, <<>>, FALSE)
  ELSE LET task == [m.tasks[g.idx] EXCEPT !.description = description,
                                          !.updated_at = t]
           m2 == [m EXCEPT !.tasks[g.idx] = task]
       IN Result(m2, save(m2), "ok", <<task>>, TRUE)

\* list.remove(task): removes the first element that == task
list_remove(s, task) ==
  RemoveAt(s, CHOOSE i \in 1..Len(s) :
                /\ PyEqTask(s[i], task)
                /\ \A j \in 1..(i - 1) : ~PyEqTask(s[j], task))

\* delete that sets last_id back to the highest id that is left
delete_recount(m, f, id) ==
  LET g == get_task(m, id) IN
  IF g.exc # "none" THEN Result(m, f, g.exc, <<>>, FALSE)
  ELSE LET task == m.tasks[g.idx]
           rest == list_remove(m.tasks, task)
           m2 == [last_id |-> IF rest = <<>> THEN 0 ELSE rest[Len(rest)].id,
                  tasks |-> rest]
       IN Result(m2, save(m2), "ok", <<task>>, TRUE)

\* TaskManager.delete
delete(m, f, id) ==
  LET g == get_task(m, id) IN
  IF g.exc # "none" THEN Result(m, f, g.exc, <<>>, FALSE)
  ELSE LET task == m.tasks[g.idx]
           m2 == [m EXCEPT !.tasks = list_remove(m.tasks, task)]
       IN Result(m2, save(m2), "ok", <<task>>, TRUE)

\* a test that lets every value pass
isinstance_any(status) == TRUE

\* isinstance(status, TaskStatus)
isinstance_TaskStatus(status) == status.enum

\* set_status that tests the status after it has assigned it
set_status_late(m, f, id, status) ==
  LET g == get_task(m, id) IN
  IF g.exc # "none" THEN Result(m, f, g.exc, <<>>, FALSE)
  ELSE LET task == [m.tasks[g.idx] EXCEPT !.status = status.value]
           m2 == [m EXCEPT !.tasks[g.idx] = task]
       IN IF ~isinstance_TaskStatus(status)
          THEN Result(m2, f, "InvalidStatus", <<>>, FALSE)
          ELSE Result(m2, save(m2), "ok", <<task>>, TRUE)

\* set_status that looks the task up before it tests the status
set_status_lookupfirst(m, f, id, status) ==
  LET g == get_task(m, id) IN
  IF g.exc # "none" THEN Result(m, f, g.exc, <<>>, FALSE)
  ELSE IF ~isinstance_TaskStatus(status)
  THEN Result(m, f, "InvalidStatus", <<>>, FALSE)
  ELSE LET task == [m.tasks[g.idx] EXCEPT !.status = status.value]
           m2 == [m EXCEPT !.tasks[g.idx] = task]
       IN Result(m2, save(m2), "ok", <<task>>, TRUE)

\* TaskManager.set_status
set_status(m, f, id, status) ==
  IF ~isinstance_TaskStatus(status)
  THEN Result(m, f, "InvalidStatus", <<>>, FALSE)
  ELSE LET g == get_task(m, id) IN
    IF g.exc # "none" THEN Result(m, f, g.exc, <<>>, FALSE)
    ELSE LET task == [m.tasks[g.idx] EXCEPT !.status = status.value]
             m2 == [m EXCEPT !.tasks[g.idx] = task]
         IN Result(m2, save(m2), "ok", <<task>>, TRUE)

\* list_tasks that lists the newest task first
list_tasks_reversed(m) ==
  [i \in 1..Len(m.tasks) |->
     [id |-> m.tasks[Len(m.tasks) + 1 - i].id,
      description |-> m.tasks[Len(m.tasks) + 1 - i].description,
      status |-> m.tasks[Len(m.tasks) + 1 - i].status]]

\* TaskManager.list_tasks: one entry per task, in the order of the list
list_tasks(m) ==
  [i \in 1..Len(m.tasks) |->
     [id |-> m.tasks[i].id, description |-> m.tasks[i].description,
      status |-> m.tasks[i].status]]

\* ---------------------------------------------------------------- state
Self == [last_id |-> last_id, tasks |-> tasks]

\* no operation is under way: the caller has taken the outcome of the last
\* one
Idle == Op("none", 0, "", NoStatus, "ok", <<>>, FALSE)

Init ==
  /\ file = Absent
  /\ running = FALSE
  /\ last_id = 0
  /\ tasks = <<>>
  /\ now = 0
  /\ lastOp = Idle
  /\ returned = <<>>
  /\ edits = 0

\* the effect of a method of the running TaskManager
Apply(name, id, description, status, r) ==
  /\ last_id' = r.m.last_id
  /\ tasks' = r.m.tasks
  /\ file' = r.f
  /\ lastOp' = Op(name, id, description, status, r.out, r.ret, r.wrote)

\* a process starts: main() constructs the TaskManager
Start ==
  /\ ~running
  /\ LET r == load(file) IN
       /\ Apply("load", 0, "", NoStatus, r)
       /\ running' = (r.out # "UnicodeDecodeError")
  /\ UNCHANGED <<now, returned, edits>>

\* the caller takes the outcome of the operation: main() logs it and goes on
Return ==
  /\ lastOp # Idle
  /\ lastOp' = Idle
  /\ UNCHANGED <<file, running, last_id, tasks, now, returned, edits>>

\* the process ends; its memory is gone
Exit ==
  /\ running
  /\ lastOp = Idle
  /\ running' = FALSE
  /\ last_id' = 0
  /\ tasks' = <<>>
  /\ lastOp' = Op("exit", 0, "", NoStatus, "ok", <<>>, FALSE)
  /\ UNCHANGED <<file, now, returned, edits>>

Add ==
  /\ running
  /\ last_id < MaxId
  /\ Len(returned) < MaxAdds
  /\ \E d \in Descriptions, drift \in 0..MaxDrift :
       /\ now + drift <= MaxClock
       /\ LET r == add(Self, file, d, now, now + drift) IN
            /\ Apply("add", 0, d, NoStatus, r)
            /\ returned' = Append(returned, r.ret[1].id)
       /\ now' = now + drift
  /\ UNCHANGED <<running, edits>>

Update ==
  /\ running
  /\ lastOp = Idle
  /\ \E id \in Ids, d \in Descriptions :
       Apply("update", id, d, NoStatus, update(Self, file, id, d, now))
  /\ UNCHANGED <<running, now, returned, edits>>

Delete ==
  /\ running
  /\ lastOp = Idle
  /\ \E id \in Ids : Apply("delete", id, "", NoStatus, delete(Self, file, id))
  /\ UNCHANGED <<running, now, returned, edits>>

SetStatus ==
  /\ running
  /\ lastOp = Idle
  /\ \E id \in Ids, s \in StatusInputs :
       Apply("set_status", id, "", s, set_status(Self, file, id, s))
  /\ UNCHANGED <<running, now, returned, edits>>

List ==
  /\ running
  /\ lastOp = Idle
  /\ lastOp' = Op("list", 0, "", NoStatus, "ok", list_tasks(Self), FALSE)
  /\ UNCHANGED <<file, running, last_id, tasks, now, returned, edits>>

\* time passes
Tick ==
  /\ lastOp = Idle
  /\ now < MaxClock
  /\ now' = now + 1
  /\ lastOp' = Op("tick", 0, "", NoStatus, "ok", <<>>, FALSE)
  /\ UNCHANGED <<file, running, last_id, tasks, returned, edits>>

Next ==
  \/ Start
  \/ Return
  \/ Exit
  \/ Add
  \/ Update
  \/ Delete
  \/ SetStatus
  \/ List
  \/ Tick

Spec == Init /\ [][Next]_vars

\* ------------------------------------------------- edits between two runs
\* While no process runs, json_path may be changed from outside: cut short,
\* or a key removed from the top-level object or from a task entry.

HasNonAscii(data) ==
  \E i \in 1..Len(data.tasks) : NonAscii(data.tasks[i].description)

\* a strict prefix of the file is no JSON text; a cut inside a character
\* that is written as several bytes (ensure_ascii=False) leaves bytes that
\* are no text
Truncate ==
  /\ ~running
  /\ edits < MaxEdits
  /\ edits' = edits + 1
  /\ file.kind = "doc"
  /\ \/ file' = BadSyntax
     \/ HasNonAscii(file.data) /\ file' = Undecodable
  /\ lastOp' = Op("truncate", 0, "", NoStatus, "ok", <<>>, FALSE)
  /\ UNCHANGED <<running, last_id, tasks, now, returned>>

DropTop(data, k) ==
  [data EXCEPT !.keys = @ \ {k},
               !.last_id = IF k = "last_id" THEN 0 ELSE @,
               !.tasks = IF k = "tasks" THEN <<>> ELSE @]

DropTopField ==
  /\ ~running
  /\ edits < MaxEdits
  /\ edits' = edits + 1
  /\ file.kind = "doc"
  /\ \E k \in file.data.keys : file' = [file EXCEPT !.data = DropTop(@, k)]
  /\ lastOp' = Op("drop_top_field", 0, "", NoStatus, "ok", <<>>, FALSE)
  /\ UNCHANGED <<running, last_id, tasks, now, returned>>

DropKey(e, k) ==
  [e EXCEPT !.keys = @ \ {k},
            !.id = IF k = "id" THEN 0 ELSE @,
            !.description = IF k = "description" THEN "" ELSE @,
            !.status = IF k = "status" THEN "" ELSE @,
            !.created_at = IF k = "created_at" THEN <<0>> ELSE @,
            !.updated_at = IF k = "updated_at" THEN <<0>> ELSE @]

DropTaskField ==
  /\ ~running
  /\ edits < MaxEdits
  /\ edits' = edits + 1
  /\ file.kind = "doc"
  /\ \E i \in 1..Len(file.data.tasks) : \E k \in file.data.tasks[i].keys :
       file' = [file EXCEPT !.data.tasks[i] = DropKey(@, k)]
  /\ lastOp' = Op("drop_task_field", 0, "", NoStatus, "ok", <<>>, FALSE)
  /\ UNCHANGED <<running, last_id, tasks, now, returned>>

\* the status of an entry is replaced by a text that names no status
EditStatus ==
  /\ ~running
  /\ edits < MaxEdits
  /\ edits' = edits + 1
  /\ file.kind = "doc"
  /\ \E i \in 1..Len(file.data.tasks) :
       /\ "status" \in file.data.tasks[i].keys
       /\ file' = [file EXCEPT !.data.tasks[i].status = "bogus"]
  /\ lastOp' = Op("edit_status", 0, "", NoStatus, "ok", <<>>, FALSE)
  /\ UNCHANGED <<running, last_id, tasks, now, returned>>

NextEnv ==
  \/ Next
  \/ Truncate
  \/ DropTopField
  \/ DropTaskField
  \/ EditStatus

SpecEnv == Init /\ [][NextEnv]_vars

\* ------------------------------------------------------ interrupted save
\* _write_data opens json_path with mode "w", which empties the file, and
\* json.dump then writes the text piece by piece.  A process that ends in
\* between (killed, power lost, disk full) leaves a strict prefix of the
\* text: no JSON text, or bytes that are no text when the cut falls inside
\* a character written as several bytes.
Partial(data) ==
  {BadSyntax} \cup (IF HasNonAscii(data) THEN {Undecodable} ELSE {})

\* the calls of add, update, delete and set_status that the running process
\* can make and that reach save
SaveCalls ==
  LET calls ==
        {add(Self, file, d, now, now) :
           d \in IF last_id < MaxId /\ Len(returned) < MaxAdds
                 THEN Descriptions ELSE {}}
        \cup {update(Self, file, id, d, now) : id \in Ids, d \in Descriptions}
        \cup {delete(Self, file, id) : id \in Ids}
        \cup {set_status(Self, file, id, st) : id \in Ids, st \in StatusInputs}
  IN {r \in calls : r.wrote}

\* the process ends inside the _write_data of a save; lastOp keeps the file
\* as it was before the save and as the save would have left it
InterruptedSave ==
  /\ running
  /\ lastOp = Idle
  /\ edits < MaxEdits
  /\ edits' = edits + 1
  /\ \E r \in SaveCalls :
       /\ file' \in Partial(r.f.data)
       /\ lastOp' = Op("interrupted_save", 0, "", NoStatus, "killed",
                       <<file, r.f>>, TRUE)
  /\ running' = FALSE
  /\ last_id' = 0
  /\ tasks' = <<>>
  /\ UNCHANGED <<now, returned>>

NextCrash ==
  \/ Next
  \/ InterruptedSave

SpecCrash == Init /\ [][NextCrash]_vars

\* ================================================================ claims
HasId(s, id) == \E i \in 1..Len(s) : s[i].id = id
FirstWithId(s, id) ==
  CHOOSE i \in 1..Len(s) : s[i].id = id /\ \A j \in 1..(i - 1) : s[j].id # id
Did(op, name) == op.name = name
DidOk(op, name) == op.name = name /\ op.out = "ok"
LookupOps == {"update", "delete", "set_status"}

\* C1: the ids returned by add are 1, 2, 3, ... in this order, whatever
\* update, delete, set_status, list and restarts come in between: the
\* first add returns 1 and no id is returned twice.
C1_AddIdsCount == \A i \in 1..Len(returned) : returned[i] = i

\* an add that came after a delete had emptied or thinned the registry
C1_Witness ==
  /\ Did(lastOp, "add")
  /\ Len(returned) = MaxId
  /\ Len(tasks) < Len(returned)

\* C2: a delete of an existing id removes exactly that task, keeps last_id
\* and keeps every other task and their order; the add that follows returns
\* last_id + 1 and not the deleted id.
C2_DeleteFrame ==
  [][/\ DidOk(lastOp', "delete") =>
          /\ HasId(tasks, lastOp'.id)
          /\ tasks' = RemoveAt(tasks, FirstWithId(tasks, lastOp'.id))
          /\ ~HasId(tasks', lastOp'.id)
          /\ last_id' = last_id
     /\ (DidOk(lastOp, "delete") /\ Did(lastOp', "add")) =>
          /\ lastOp'.ret[1].id = last_id + 1
          /\ lastOp'.ret[1].id # lastOp.id]_vars

\* the task with the highest id was deleted and another task is left
C2_Witness ==
  /\ DidOk(lastOp, "delete")
  /\ lastOp.id = last_id
  /\ Len(tasks) >= 1

\* C3: loading the file that save writes gives back last_id and the tasks,
\* each with its id, description, status, created_at and updated_at, and
\* resets nothing.
C3_SaveLoadRoundTrip ==
  running =>
    LET r == load(save(Self)) IN
      /\ r.out = "loaded"
      /\ r.f = save(Self)
      /\ r.m.last_id = last_id
      /\ PyEqTasks(r.m.tasks, tasks)

\* a process that loaded a task whose timestamp has a fraction of a second
C3_Witness ==
  /\ running
  /\ lastOp.name = "load"
  /\ lastOp.out = "loaded"
  /\ \E i \in 1..Len(tasks) : tasks[i].updated_at % FracPerSec # 0

\* C4: set_status with a status outside todo, in-progress, done raises
\* InvalidStatus and leaves tasks, last_id and the file as they were.
C4_InvalidStatusNoChange ==
  [][(Did(lastOp', "set_status") /\ lastOp'.status.value \notin StatusValues) =>
        /\ lastOp'.out = "InvalidStatus"
        /\ tasks' = tasks
        /\ last_id' = last_id
        /\ file' = file
        /\ ~lastOp'.wrote]_vars

\* a bogus status was refused for an id that exists
C4_Witness ==
  /\ Did(lastOp, "set_status")
  /\ lastOp.out = "InvalidStatus"
  /\ lastOp.status.value = "bogus"
  /\ HasId(tasks, lastOp.id)

\* C5: update, delete and set_status (valid status) with an id that no task
\* has raise NotFound when there is a task, and EmptyCollection when there
\* is none.
C5_LookupErrors ==
  [][(/\ lastOp'.name \in LookupOps
      /\ lastOp'.name = "set_status" => lastOp'.status \in TaskStatus
      /\ ~HasId(tasks, lastOp'.id)) =>
        lastOp'.out = IF tasks = <<>> THEN "EmptyCollection" ELSE "NotFound"]_vars

\* a lookup in a registry that deletions have emptied
C5_Witness ==
  /\ lastOp.name \in LookupOps
  /\ lastOp.out = "EmptyCollection"
  /\ last_id > 0
  /\ tasks = <<>>

\* C6: when update, delete or set_status fails, tasks and last_id are
\* unchanged and nothing is saved, so the file is unchanged.
C6_FailureNoMutation ==
  [][(lastOp'.name \in LookupOps /\ lastOp'.out # "ok") =>
        /\ lastOp'.out \in {"NotFound", "EmptyCollection", "InvalidStatus"}
        /\ tasks' = tasks
        /\ last_id' = last_id
        /\ file' = file
        /\ ~lastOp'.wrote]_vars

\* an update that found no task in a registry that holds one
C6_Witness ==
  /\ Did(lastOp, "update")
  /\ lastOp.out = "NotFound"
  /\ Len(tasks) >= 1

\* C7: loading a file that is no parsable structured data does not fail:
\* the registry is empty afterwards and the file holds the empty state.
C7_UnparsableResets ==
  [][(Did(lastOp', "load") /\ file.kind \in {"badsyntax", "undecodable"}) =>
        /\ lastOp'.out = "reset"
        /\ running'
        /\ last_id' = 0
        /\ tasks' = <<>>
        /\ file' = write_data(Data(0, <<>>))]_vars

\* C8: loading a file that parses but lacks last_id, tasks, or one of the
\* five keys of a task entry resets the file and the registry to the empty
\* state.
C8_MissingFieldResets ==
  [][(/\ Did(lastOp', "load")
      /\ file.kind = "doc"
      /\ \/ file.data.keys # TopKeys
         \/ \E i \in 1..Len(file.data.tasks) : file.data.tasks[i].keys # TaskKeys) =>
        /\ lastOp'.out = "reset"
        /\ last_id' = 0
        /\ tasks' = <<>>
        /\ file' = write_data(Data(0, <<>>))]_vars

\* C9: a set_status with a valid status and an existing id replaces the
\* status and sets updated_at to the current time, in memory and in the
\* file, so that updated_at > created_at when time has passed since the
\* creation.
C9_SetStatusRefreshes ==
  [][DidOk(lastOp', "set_status") =>
        LET i == FirstWithId(tasks, lastOp'.id) IN
          /\ tasks'[i].status = lastOp'.status.value
          /\ tasks'[i].updated_at = now
          /\ now > tasks[i].created_at => tasks'[i].updated_at > tasks'[i].created_at
          /\ file' = save(Self')]_vars

\* C10: a successful update replaces the description of the task and sets
\* its updated_at to the current time and changes nothing else: id, status,
\* created_at, the position, the other tasks and last_id stay.
C10_UpdateFrame ==
  [][DidOk(lastOp', "update") =>
        /\ HasId(tasks, lastOp'.id)
        /\ LET i == FirstWithId(tasks, lastOp'.id) IN
             tasks' = [tasks EXCEPT ![i].description = lastOp'.description,
                                    ![i].updated_at = now]
        /\ last_id' = last_id]_vars

\* an update, later than the creation, of one task out of two
C10_Witness ==
  /\ DidOk(lastOp, "update")
  /\ Len(tasks) = 2
  /\ \E i \in 1..Len(tasks) :
       /\ tasks[i].id = lastOp.id
       /\ tasks[i].updated_at > tasks[i].created_at
       /\ tasks[i].status # TODO.value

MutatingOps == {"add", "update", "delete", "set_status"}

\* C11: every mutating operation has saved when it returns: after a
\* successful add, update, delete or set_status the file holds last_id and
\* the tasks, all five fields, of the registry in memory, and a restart at
\* that point gets exactly this state back.
C11_SavedOnReturn ==
  [][(lastOp'.name \in MutatingOps /\ lastOp'.out = "ok") =>
        /\ lastOp'.wrote
        /\ file' = save(Self')
        /\ LET r == load(file') IN
             /\ r.out = "loaded"
             /\ r.m.last_id = last_id'
             /\ PyEqTasks(r.m.tasks, tasks')]_vars

\* an update, later than the creation, has just returned
C11_Witness ==
  /\ DidOk(lastOp, "update")
  /\ file.kind = "doc"
  /\ \E i \in 1..Len(file.data.tasks) :
       /\ file.data.tasks[i].id = lastOp.id
       /\ file.data.tasks[i].description = lastOp.description
       /\ file.data.tasks[i].updated_at # file.data.tasks[i].created_at

\* C12: list_tasks returns one entry per task in the order of the list and
\* changes nothing: no field of a task, not last_id, not the file.
C12_ListReadOnly ==
  [][Did(lastOp', "list") =>
        /\ Len(lastOp'.ret) = Len(tasks)
        /\ \A i \in 1..Len(tasks) :
             /\ lastOp'.ret[i].id = tasks[i].id
             /\ lastOp'.ret[i].description = tasks[i].description
             /\ lastOp'.ret[i].status = tasks[i].status
        /\ tasks' = tasks
        /\ last_id' = last_id
        /\ file' = file
        /\ ~lastOp'.wrote]_vars

\* two tasks were listed
C12_Witness ==
  /\ Did(lastOp, "list")
  /\ Len(lastOp.ret) = 2
  /\ lastOp.ret[1].id # lastOp.ret[2].id

\* C13: when the file does not exist, _load creates it with the empty state
\* and the registry is empty; a second load right after finds the same
\* empty state.
C13_MissingFileCreated ==
  [][(Did(lastOp', "load") /\ file.kind = "absent") =>
        /\ lastOp'.out = "created"
        /\ running'
        /\ last_id' = 0
        /\ tasks' = <<>>
        /\ file' = write_data(Data(0, <<>>))
        /\ LET r == load(file') IN
             /\ r.out = "loaded"
             /\ r.m = EmptyManager
             /\ r.f = file']_vars

\* the first process has created the file
C13_Witness ==
  /\ Did(lastOp, "load")
  /\ lastOp.out = "created"
  /\ file = write_data(Data(0, <<>>))

\* C14: set_status tests the status before it looks the task up: with an
\* invalid status it raises InvalidStatus also for an id that no task has
\* and for an empty registry.
C14_StatusTestedFirst ==
  [][(/\ Did(lastOp', "set_status")
      /\ lastOp'.status \notin TaskStatus
      /\ ~HasId(tasks, lastOp'.id)) =>
        lastOp'.out = "InvalidStatus"]_vars

\* an invalid status was refused while the registry was empty
C14_Witness ==
  /\ Did(lastOp, "set_status")
  /\ lastOp.out = "InvalidStatus"
  /\ tasks = <<>>
  /\ running

\* C18: starting without a file, after any add, update, delete, set_status,
\* list and restart the ids of the tasks are pairwise distinct, lie in
\* 1..last_id and ascend strictly along the list.
C18_IdsAscending ==
  /\ \A i \in 1..Len(tasks) : tasks[i].id \in 1..last_id
  /\ \A i, j \in 1..Len(tasks) : i < j => tasks[i].id < tasks[j].id

\* two tasks loaded by a restart
C18_Witness ==
  /\ Did(lastOp, "load")
  /\ lastOp.out = "loaded"
  /\ Len(tasks) = 2

\* C15: the task that add returns has the status todo and created_at equal
\* to updated_at, and is the last element of the list, however the clock
\* moves while add runs.
C15_AddStampsOnce ==
  [][Did(lastOp', "add") =>
        /\ lastOp'.ret[1].status = TODO.value
        /\ lastOp'.ret[1].created_at = lastOp'.ret[1].updated_at
        /\ tasks' = Append(tasks, lastOp'.ret[1])]_vars

\* C16: save is atomic for one process: the load that follows a save, also
\* a save that was interrupted, finds the complete file of before the save
\* or the complete file the save writes, and resets nothing.
C16_SaveAtomic ==
  [][(Did(lastOp, "interrupted_save") /\ Did(lastOp', "load")) =>
        /\ lastOp'.out = "loaded"
        /\ file' \in {lastOp.ret[1], lastOp.ret[2]}]_vars

\* C17: in every reachable state, also right after the load of any file
\* that parses, the status of every task is one of todo, in-progress, done.
C17_StatusClosed ==
  \A i \in 1..Len(tasks) : tasks[i].status \in StatusValues

====
